---------------------------- MODULE Spec2Model ----------------------------
(***************************************************************************)
(* TextCAD: the sketch orchestrator (src/src/sketch.rs), the constraint    *)
(* catalog (src/src/constraints/*.rs) and the solution extractor           *)
(* (src/src/solution.rs), as a state machine.                              *)
(*                                                                         *)
(* The external solver (Z3) is represented by its assertion list and by a  *)
(* satisfiability check that searches a finite grid of rational values.    *)
(***************************************************************************)
EXTENDS Integers, Sequences, FiniteSets, TLC

(***************************************************************************)
(* Bounds of the model.                                                    *)
(***************************************************************************)
MaxPoints == 2
MaxLines == 1
MaxApplyLines == 2
MaxCircles == 1
MaxConstraints == 2
MaxSolves == 2
MaxCoord == 1
MaxStorePoints == 3
MaxStoreConstraints == 1
MaxPerpConstraints == 3
MaxOnLinePoints == 3
MaxOnLineConstraints == 4
MaxTwoLinePoints == 4
MaxTwoLineConstraints == 3
MaxTwoLineSolves == 1
MaxPairPoints == 1
MaxPairSolves == 1

(***************************************************************************)
(* Program constants.                                                      *)
(***************************************************************************)
I32Max == 2147483647
CoordScale == 1000000
ToleranceScale == 1000000
RadiusScale == 10000
BadIndex == 999
WarnDenominatorBelow == 1000
WarnNumeratorAbove == 1000000000

(***************************************************************************)
(* Identifiers: generational_arena::Index as <<index, generation>>.        *)
(***************************************************************************)
Index(i, g) == <<i, g>>
NoId == <<>>
BadId == Index(BadIndex, BadIndex)

(* Option<String>: <<>> is None, <<s>> is Some(s). *)
None == <<>>
Some(s) == <<s>>
NameOpts == {None, Some("a")}

PointIdInputs == {Index(i, 0) : i \in 0..(MaxPoints - 1)} \cup {BadId}
LineIdInputs == {Index(i, 0) : i \in 0..(MaxApplyLines - 1)} \cup {BadId}
CircleIdInputs == {Index(i, 0) : i \in 0..(MaxCircles - 1)} \cup {BadId}

(***************************************************************************)
(* Exact rationals <<numerator, denominator>>, kept in lowest terms with a *)
(* positive denominator, as the solver keeps its numerals.                 *)
(***************************************************************************)
Abs(n) == IF n < 0 THEN -n ELSE n

RECURSIVE GCD(_, _)
GCD(a, b) == IF b = 0 THEN a ELSE GCD(b, a % b)

Rat(n, d) ==
    LET g == GCD(Abs(n), d)
    IN  <<n \div g, d \div g>>

Zero == Rat(0, 1)
One == Rat(1, 1)
RAdd(a, b) == Rat(a[1] * b[2] + b[1] * a[2], a[2] * b[2])
RSub(a, b) == Rat(a[1] * b[2] - b[1] * a[2], a[2] * b[2])
RMul(a, b) == Rat(a[1] * b[1], a[2] * b[2])
RLe(a, b) == a[1] * b[2] <= b[1] * a[2]

(* `(v * scale) as i32` for a whole number of meters v: the cast saturates. *)
ScaleToI32(v, scale) ==
    IF v > I32Max \div scale THEN I32Max
    ELSE IF v < -(I32Max \div scale) THEN -I32Max - 1
    ELSE v * scale

(* `(q * scale) as i32` for a rational number of (square) meters q >= 0:  *)
(* the cast drops the fraction and saturates.                              *)
ScaleRatToI32(q, scale) ==
    LET whole == q[1] \div q[2]
        part == ((q[1] % q[2]) * scale) \div q[2]
    IN  IF whole > I32Max \div scale THEN I32Max
        ELSE IF whole = I32Max \div scale /\ part > I32Max % scale THEN I32Max
        ELSE whole * scale + part

(***************************************************************************)
(* The state.                                                              *)
(***************************************************************************)
VARIABLES
    points,       \* Sketch.points: arena slots in index order
    lines,        \* Sketch.lines
    circles,      \* Sketch.circles
    constraints,  \* Sketch.constraints
    solver,       \* the assertions held by Sketch.solver, in assertion order
    ret,          \* what the last operation returned
    applied,      \* positions of the constraints whose apply ran in the last call
    lastCheck,    \* what solver.check() reported in the last call, or "none"
    solveLog,     \* one entry per solve_constraints / solve_and_extract call
    solution,     \* a Solution owned by the caller
    evaluated,    \* number of model.eval calls made by the last Solution call
    peer          \* another Sketch built on the same context, set aside

vars == <<points, lines, circles, constraints, solver, ret, applied, lastCheck,
          solveLog, solution, evaluated, peer>>

sketchVars == <<points, lines, circles, constraints, solver>>

Range(s) == {s[i] : i \in 1..Len(s)}

(***************************************************************************)
(* Result<T>: Ok(v) or Err(e); an error carries its variant, the text of   *)
(* its message and the identifier the message was formatted from.          *)
(***************************************************************************)
NoErr == [kind |-> "none", text |-> "", id |-> NoId]
Ok(v) == [ok |-> TRUE, val |-> v, err |-> NoErr]
Err(e) == [ok |-> FALSE, val |-> <<>>, err |-> e]
EntityError(text, id) == [kind |-> "EntityError", text |-> text, id |-> id]
SolutionError(text, id) == [kind |-> "SolutionError", text |-> text, id |-> id]
SolverError(text) == [kind |-> "SolverError", text |-> text, id |-> NoId]
OverConstrained == [kind |-> "OverConstrained", text |-> "", id |-> NoId]

(***************************************************************************)
(* Entities.                                                               *)
(***************************************************************************)
BaseName(name, default) == IF name = None THEN default ELSE name[1]

Point2D_new(id, name) ==
    [id |-> id,
     x |-> BaseName(name, "p") \o "_x",
     y |-> BaseName(name, "p") \o "_y",
     name |-> name]

Line_new(id, start, end, name) ==
    [id |-> id, start |-> start, end |-> end, name |-> name]

Circle_new(id, center, name) ==
    [id |-> id,
     center |-> center,
     radius |-> BaseName(name, "c") \o "_radius",
     name |-> name]

(* insert_with handing out the index of the last occupied slot. *)
ArenaNextIndex_LastSlot(arena) == Index(IF arena = <<>> THEN 0 ELSE Len(arena) - 1, 0)

(* Arena::insert_with on an arena nothing was ever removed from: the next *)
(* slot, generation 0.                                                     *)
ArenaNextIndex(arena) == Index(Len(arena), 0)

(* Arena::get: the slot must exist and carry the identifier's generation. *)
ArenaGet(arena, id) ==
    IF id # NoId /\ id[1] < Len(arena) /\ arena[id[1] + 1].id = id
    THEN Some(arena[id[1] + 1])
    ELSE None

(* The identifiers the first n inserts into another arena return: an      *)
(* Index carries a slot and a generation, nothing of the arena it is from. *)
IssuedByAnotherArena(n) == {ArenaNextIndex([i \in 1..k |-> i]) : k \in 0..(n - 1)}

get_point(id) == ArenaGet(points, id)
get_line(id) == ArenaGet(lines, id)
get_circle(id) == ArenaGet(circles, id)

(***************************************************************************)
(* SketchQuery as implemented by Sketch.                                   *)
(***************************************************************************)
point_variables(point_id) ==
    IF get_point(point_id) # None
    THEN Ok(<<get_point(point_id)[1].x, get_point(point_id)[1].y>>)
    ELSE Err(EntityError("Point {:?} not found", point_id))

line_endpoints(line_id) ==
    IF get_line(line_id) # None
    THEN Ok(<<get_line(line_id)[1].start, get_line(line_id)[1].end>>)
    ELSE Err(EntityError("Line {:?} not found", line_id))

circle_center_and_radius(circle_id) ==
    IF get_circle(circle_id) # None
    THEN Ok(<<get_circle(circle_id)[1].center, get_circle(circle_id)[1].radius>>)
    ELSE Err(EntityError("Circle {:?} not found", circle_id))

(***************************************************************************)
(* Assertions handed to the solver: a kind, the unknowns it reads, in the  *)
(* order of the formula, and a rational constant.                          *)
(*   eq_const  v = c                  eq_var  v1 = v2                       *)
(*   dist_sq   (x2-x1)^2 + (y2-y1)^2 = c    over <<x1, y1, x2, y2>>         *)
(*   cross     dx1*dy2 - dy1*dx2 = 0                                        *)
(*   dot       dx1*dx2 + dy1*dy2 = 0                                        *)
(*             both over <<x1s, y1s, x1e, y1e, x2s, y2s, x2e, y2e>>         *)
(*   param     p = a + t*(b - a)      over <<p, a, b, t>>                   *)
(*   ge        v >= c                 le      v <= c                        *)
(***************************************************************************)
Assertion(k, vs, c) == [k |-> k, vars |-> vs, c |-> c]

Applied(asserted) == [ok |-> TRUE, err |-> NoErr, asserted |-> asserted]
Failed(e) == [ok |-> FALSE, err |-> e, asserted |-> <<>>]

(***************************************************************************)
(* The constraint catalog: one apply per kind.  Every lookup precedes the  *)
(* first solver.assert, so a failed apply has asserted nothing.            *)
(***************************************************************************)
CoincidentPointsConstraint_apply(c) ==
    LET v1 == point_variables(c.point1)
        v2 == point_variables(c.point2)
    IN  IF ~v1.ok THEN Failed(EntityError("Point {:?} not found", c.point1))
        ELSE IF ~v2.ok THEN Failed(EntityError("Point {:?} not found", c.point2))
        ELSE Applied(<<Assertion("eq_var", <<v1.val[1], v2.val[1]>>, Zero),
                       Assertion("eq_var", <<v1.val[2], v2.val[2]>>, Zero)>>)

FixedPositionConstraint_apply(c) ==
    LET v == point_variables(c.point)
    IN  IF ~v.ok THEN Failed(EntityError("Point {:?} not found", c.point))
        ELSE Applied(
            <<Assertion("eq_const", <<v.val[1]>>,
                        Rat(ScaleToI32(c.x, CoordScale), CoordScale)),
              Assertion("eq_const", <<v.val[2]>>,
                        Rat(ScaleToI32(c.y, CoordScale), CoordScale))>>)

(* The length constraint naming the line where an endpoint is missing. *)
LineLengthConstraint_apply_NamesLine(c) ==
    LET ends == line_endpoints(c.line)
        p1 == point_variables(ends.val[1])
        p2 == point_variables(ends.val[2])
    IN  IF ~ends.ok THEN Failed(EntityError("Line {:?} not found", c.line))
        ELSE IF ~p1.ok
        THEN Failed(EntityError("Start point {:?} not found", c.line))
        ELSE IF ~p2.ok
        THEN Failed(EntityError("End point {:?} not found", c.line))
        ELSE Applied(
            <<Assertion("dist_sq", p1.val \o p2.val,
                        Rat(ScaleRatToI32(RMul(c.length, c.length), CoordScale),
                            CoordScale))>>)

LineLengthConstraint_apply(c) ==
    LET ends == line_endpoints(c.line)
        p1 == point_variables(ends.val[1])
        p2 == point_variables(ends.val[2])
    IN  IF ~ends.ok THEN Failed(EntityError("Line {:?} not found", c.line))
        ELSE IF ~p1.ok
        THEN Failed(EntityError("Start point {:?} not found", ends.val[1]))
        ELSE IF ~p2.ok
        THEN Failed(EntityError("End point {:?} not found", ends.val[2]))
        ELSE Applied(
            <<Assertion("dist_sq", p1.val \o p2.val,
                        Rat(ScaleRatToI32(RMul(c.length, c.length), CoordScale),
                            CoordScale))>>)

(* The lookups shared by the parallel and the perpendicular constraint. *)
TwoLinesLookup(c, k) ==
    LET ends1 == line_endpoints(c.line1)
        ends2 == line_endpoints(c.line2)
        s1 == point_variables(ends1.val[1])
        e1 == point_variables(ends1.val[2])
        s2 == point_variables(ends2.val[1])
        e2 == point_variables(ends2.val[2])
    IN  IF ~ends1.ok THEN Failed(EntityError("Line {:?} not found", c.line1))
        ELSE IF ~ends2.ok THEN Failed(EntityError("Line {:?} not found", c.line2))
        ELSE IF ~s1.ok
        THEN Failed(EntityError("Start point {:?} of line1 not found", ends1.val[1]))
        ELSE IF ~e1.ok
        THEN Failed(EntityError("End point {:?} of line1 not found", ends1.val[2]))
        ELSE IF ~s2.ok
        THEN Failed(EntityError("Start point {:?} of line2 not found", ends2.val[1]))
        ELSE IF ~e2.ok
        THEN Failed(EntityError("End point {:?} of line2 not found", ends2.val[2]))
        ELSE Applied(<<Assertion(k, s1.val \o e1.val \o s2.val \o e2.val, Zero)>>)

(* The parallel constraint asserting the dot product. *)
ParallelLinesConstraint_apply_Dot(c) == TwoLinesLookup(c, "dot")

(* The parallel constraint taking the first line's direction as a unit    *)
(* vector.                                                                *)
ParallelLinesConstraint_apply_UnitDirection(c) ==
    LET r == TwoLinesLookup(c, "cross")
    IN  IF ~r.ok THEN r
        ELSE Applied(r.asserted \o
                <<Assertion("dist_sq", SubSeq(r.asserted[1].vars, 1, 4), One)>>)

ParallelLinesConstraint_apply(c) == TwoLinesLookup(c, "cross")

(* The perpendicular constraint asserting the cross product. *)
PerpendicularLinesConstraint_apply_Cross(c) == TwoLinesLookup(c, "cross")

PerpendicularLinesConstraint_apply(c) == TwoLinesLookup(c, "dot")

(* The name of t made from the line alone. *)
t_name_LineOnly(line, point) == "t_line_" \o ToString(line[1])

(* format!("t_line_{}_point_{}", line index, point index) *)
t_name(line, point) ==
    "t_line_" \o ToString(line[1]) \o "_point_" \o ToString(point[1])

(* The point-on-line constraint asserting the bounds of t as soon as the   *)
(* line is found, before it looks up the points.                          *)
PointOnLineConstraint_apply_BoundsFirst(c) ==
    LET ends == line_endpoints(c.line)
        p == point_variables(c.point)
        p1 == point_variables(ends.val[1])
        p2 == point_variables(ends.val[2])
        t == t_name(c.line, c.point)
        bounds == <<Assertion("ge", <<t>>, Zero), Assertion("le", <<t>>, One)>>
        Partial(e) == [ok |-> FALSE, err |-> e, asserted |-> bounds]
    IN  IF ~ends.ok THEN Failed(EntityError("Line {:?} not found", c.line))
        ELSE IF ~p.ok THEN Partial(EntityError("Point {:?} not found", c.point))
        ELSE IF ~p1.ok
        THEN Partial(EntityError("Line start point {:?} not found", ends.val[1]))
        ELSE IF ~p2.ok
        THEN Partial(EntityError("Line end point {:?} not found", ends.val[2]))
        ELSE Applied(
            bounds \o
            <<Assertion("param", <<p.val[1], p1.val[1], p2.val[1], t>>, Zero),
              Assertion("param", <<p.val[2], p1.val[2], p2.val[2], t>>, Zero)>>)

(* The point-on-line constraint without the upper bound on t. *)
PointOnLineConstraint_apply_NoUpperBound(c) ==
    LET ends == line_endpoints(c.line)
        p == point_variables(c.point)
        p1 == point_variables(ends.val[1])
        p2 == point_variables(ends.val[2])
        t == t_name(c.line, c.point)
    IN  IF ~ends.ok THEN Failed(EntityError("Line {:?} not found", c.line))
        ELSE IF ~p.ok THEN Failed(EntityError("Point {:?} not found", c.point))
        ELSE IF ~p1.ok
        THEN Failed(EntityError("Line start point {:?} not found", ends.val[1]))
        ELSE IF ~p2.ok
        THEN Failed(EntityError("Line end point {:?} not found", ends.val[2]))
        ELSE Applied(
            <<Assertion("param", <<p.val[1], p1.val[1], p2.val[1], t>>, Zero),
              Assertion("param", <<p.val[2], p1.val[2], p2.val[2], t>>, Zero),
              Assertion("ge", <<t>>, Zero)>>)

PointOnLineConstraint_apply(c) ==
    LET ends == line_endpoints(c.line)
        p == point_variables(c.point)
        p1 == point_variables(ends.val[1])
        p2 == point_variables(ends.val[2])
        t == t_name(c.line, c.point)
    IN  IF ~ends.ok THEN Failed(EntityError("Line {:?} not found", c.line))
        ELSE IF ~p.ok THEN Failed(EntityError("Point {:?} not found", c.point))
        ELSE IF ~p1.ok
        THEN Failed(EntityError("Line start point {:?} not found", ends.val[1]))
        ELSE IF ~p2.ok
        THEN Failed(EntityError("Line end point {:?} not found", ends.val[2]))
        ELSE Applied(
            <<Assertion("param", <<p.val[1], p1.val[1], p2.val[1], t>>, Zero),
              Assertion("param", <<p.val[2], p1.val[2], p2.val[2], t>>, Zero),
              Assertion("ge", <<t>>, Zero),
              Assertion("le", <<t>>, One)>>)

CircleRadiusConstraint_apply(c) ==
    LET cr == circle_center_and_radius(c.circle)
    IN  IF ~cr.ok THEN Failed(EntityError("Circle {:?} not found", c.circle))
        ELSE Applied(
            <<Assertion("eq_const", <<cr.val[2]>>,
                        Rat(ScaleToI32(c.radius, RadiusScale), RadiusScale))>>)

(* Constraint::apply, dispatched on the constraint's type. *)
Constraint_apply(c) ==
    CASE c.kind = "CoincidentPoints" -> CoincidentPointsConstraint_apply(c)
      [] c.kind = "FixedPosition" -> FixedPositionConstraint_apply(c)
      [] c.kind = "LineLength" -> LineLengthConstraint_apply(c)
      [] c.kind = "ParallelLines" -> ParallelLinesConstraint_apply(c)
      [] c.kind = "PerpendicularLines" -> PerpendicularLinesConstraint_apply(c)
      [] c.kind = "PointOnLine" -> PointOnLineConstraint_apply(c)
      [] c.kind = "CircleRadius" -> CircleRadiusConstraint_apply(c)

(***************************************************************************)
(* The external solver.  An interpretation gives every unknown a value of  *)
(* the grid; check() answers Sat or Unsat as the assertions have or lack   *)
(* an interpretation, or gives up with Unknown.                            *)
(***************************************************************************)
Grid == {Rat(n, 1) : n \in 0..MaxCoord}

Holds(a, m) ==
    LET v(i) == m[a.vars[i]]
    IN  CASE a.k = "eq_const" -> v(1) = a.c
          [] a.k = "eq_var" -> v(1) = v(2)
          [] a.k = "dist_sq" ->
                RAdd(RMul(RSub(v(3), v(1)), RSub(v(3), v(1))),
                     RMul(RSub(v(4), v(2)), RSub(v(4), v(2)))) = a.c
          [] a.k = "cross" ->
                RSub(RMul(RSub(v(3), v(1)), RSub(v(8), v(6))),
                     RMul(RSub(v(4), v(2)), RSub(v(7), v(5)))) = Zero
          [] a.k = "dot" ->
                RAdd(RMul(RSub(v(3), v(1)), RSub(v(7), v(5))),
                     RMul(RSub(v(4), v(2)), RSub(v(8), v(6)))) = Zero
          [] a.k = "param" ->
                v(1) = RAdd(v(2), RMul(v(4), RSub(v(3), v(2))))
          [] a.k = "ge" -> RLe(a.c, v(1))
          [] a.k = "le" -> RLe(v(1), a.c)

UnknownsOf(assertions) ==
    UNION {Range(assertions[i].vars) : i \in 1..Len(assertions)}

Satisfies(m, assertions) ==
    \A i \in 1..Len(assertions) : Holds(assertions[i], m)

(* The values an interpretation is searched over: the grid and every      *)
(* numeral an assertion equates an unknown with.                          *)
Values(assertions) ==
    Grid \cup {assertions[i].c : i \in {j \in 1..Len(assertions) :
                                            assertions[j].k = "eq_const"}}

(* The interpretations of the assertions over the unknowns `us`. *)
Models(assertions, us) ==
    {m \in [us -> Values(assertions)] : Satisfies(m, assertions)}

Satisfiable(assertions) ==
    \E m \in [UnknownsOf(assertions) -> Values(assertions)] : Satisfies(m, assertions)

(* Solver::check *)
CheckOutcomes(assertions) ==
    {IF Satisfiable(assertions) THEN "Sat" ELSE "Unsat", "Unknown"}

(* Solver::get_model after Sat: the model interprets the unknowns of the *)
(* assertions; Model::eval(var, model_completion = true) gives 0 to an    *)
(* unknown of the sketch that no assertion mentions.                      *)
Completed(m, us) == [u \in us \cup DOMAIN m |-> IF u \in DOMAIN m THEN m[u] ELSE Zero]

(* Model::eval; it answers nothing for a term the model cannot evaluate. *)
ModelEval(model, var) ==
    IF var \in DOMAIN model THEN Some(model[var]) ELSE None

(***************************************************************************)
(* Solution (src/src/solution.rs).  A numeral of the model is the pair     *)
(* <<numerator, denominator>> that Real::as_real returns, or NotRational   *)
(* when it returns nothing.  An f64 is written as the exact quotient it    *)
(* was computed from.                                                      *)
(***************************************************************************)
NotRational == <<>>

F64Div(n, d) == IF d < 0 THEN Rat(-n, -d) ELSE Rat(n, d)

(* A term that is not of sort Real at all, as a Bool constant. *)
NotReal == <<"bool">>

(* `num as f64 / den as f64` of two i64 with den # 0 is finite: an f64    *)
(* holds every magnitude up to 2^63.  A non-finite quotient would have no *)
(* denominator.                                                           *)
IsFinite(q) == q[2] # 0

(* The condition of the eprintln! of the precision warning; the warning   *)
(* goes to stderr and is no part of the returned value.                   *)
PrecisionWarning(value) ==
    Abs(value[2]) < WarnDenominatorBelow /\ Abs(value[1]) > WarnNumeratorAbove

(* The conversion failing where it warns. *)
rational_to_f64_enhanced_WarningFails(value, context) ==
    IF value = NotReal
    THEN Err(SolutionError("AST is not a real number for " \o context, NoId))
    ELSE IF value = NotRational
    THEN Err(SolutionError("Failed to extract rational value for " \o context, NoId))
    ELSE IF value[2] = 0
    THEN Err(SolutionError("Division by zero in rational: " \o context, NoId))
    ELSE IF ~IsFinite(F64Div(value[1], value[2]))
    THEN Err(SolutionError("Non-finite result in conversion: " \o context, NoId))
    ELSE IF PrecisionWarning(value)
    THEN Err(SolutionError("Potential precision loss in conversion: " \o context, NoId))
    ELSE Ok(F64Div(value[1], value[2]))

rational_to_f64_enhanced(value, context) ==
    IF value = NotReal
    THEN Err(SolutionError("AST is not a real number for " \o context, NoId))
    ELSE IF value = NotRational
    THEN Err(SolutionError("Failed to extract rational value for " \o context, NoId))
    ELSE IF value[2] = 0
    THEN Err(SolutionError("Division by zero in rational: " \o context, NoId))
    ELSE IF ~IsFinite(F64Div(value[1], value[2]))
    THEN Err(SolutionError("Non-finite result in conversion: " \o context, NoId))
    ELSE Ok(F64Div(value[1], value[2]))

rational_to_f64(value) == rational_to_f64_enhanced(value, "coordinate")

EmptyMap == [k \in {} |-> 0]
MapInsert(f, k, v) == [j \in (DOMAIN f) \cup {k} |-> IF j = k THEN v ELSE f[j]]

Solution_new(model) ==
    [model |-> model,
     point_coords |-> EmptyMap,
     line_params |-> EmptyMap,
     circle_params |-> EmptyMap,
     parameter_vars |-> EmptyMap]

(* What a Solution method returns: the Solution afterwards, the Result, and *)
(* the number of model.eval calls it made.                                  *)
Outcome(sol, res, evals) == [sol |-> sol, res |-> res, evals |-> evals]

(* extract_point_coordinates without the look at the cache. *)
extract_point_coordinates_NoCacheCheck(sol, point_id, x_var, y_var) ==
    LET x_value == ModelEval(sol.model, x_var)
        y_value == ModelEval(sol.model, y_var)
        x == rational_to_f64(x_value[1])
        y == rational_to_f64(y_value[1])
    IN  IF x_value = None
        THEN Outcome(sol, Err(SolutionError("Failed to evaluate x coordinate", NoId)), 1)
        ELSE IF y_value = None
        THEN Outcome(sol, Err(SolutionError("Failed to evaluate y coordinate", NoId)), 2)
        ELSE IF ~x.ok THEN Outcome(sol, x, 2)
        ELSE IF ~y.ok THEN Outcome(sol, y, 2)
        ELSE Outcome(
            [sol EXCEPT !.point_coords = MapInsert(@, point_id, <<x.val, y.val>>)],
            Ok(<<x.val, y.val>>), 2)

extract_point_coordinates(sol, point_id, x_var, y_var) ==
    IF point_id \in DOMAIN sol.point_coords
    THEN Outcome(sol, Ok(sol.point_coords[point_id]), 0)
    ELSE LET x_value == ModelEval(sol.model, x_var)
             y_value == ModelEval(sol.model, y_var)
             x == rational_to_f64(x_value[1])
             y == rational_to_f64(y_value[1])
         IN  IF x_value = None
             THEN Outcome(sol, Err(SolutionError("Failed to evaluate x coordinate", NoId)), 1)
             ELSE IF y_value = None
             THEN Outcome(sol, Err(SolutionError("Failed to evaluate y coordinate", NoId)), 2)
             ELSE IF ~x.ok THEN Outcome(sol, x, 2)
             ELSE IF ~y.ok THEN Outcome(sol, y, 2)
             ELSE Outcome(
                 [sol EXCEPT !.point_coords = MapInsert(@, point_id, <<x.val, y.val>>)],
                 Ok(<<x.val, y.val>>), 2)

(* get_point_coordinates answering the origin for a point not extracted. *)
get_point_coordinates_Default(sol, point_id) ==
    IF point_id \in DOMAIN sol.point_coords
    THEN Ok(sol.point_coords[point_id])
    ELSE Ok(<<Zero, Zero>>)

get_point_coordinates(sol, point_id) ==
    IF point_id \in DOMAIN sol.point_coords
    THEN Ok(sol.point_coords[point_id])
    ELSE Err(SolutionError("Point {:?} coordinates not extracted", point_id))

(* extract_parameter evaluating the model before it looks at the cache. *)
extract_parameter_EvalFirst(sol, var_name, param_var) ==
    LET param_value == ModelEval(sol.model, param_var)
        value == rational_to_f64_enhanced(param_value[1], var_name)
    IN  IF param_value = None
        THEN Outcome(sol, Err(SolutionError("Failed to evaluate parameter " \o var_name, NoId)), 1)
        ELSE IF var_name \in DOMAIN sol.parameter_vars
        THEN Outcome(sol, Ok(sol.parameter_vars[var_name]), 1)
        ELSE IF ~value.ok THEN Outcome(sol, value, 1)
        ELSE Outcome(
            [sol EXCEPT !.parameter_vars = MapInsert(@, var_name, value.val)],
            Ok(value.val), 1)

extract_parameter(sol, var_name, param_var) ==
    IF var_name \in DOMAIN sol.parameter_vars
    THEN Outcome(sol, Ok(sol.parameter_vars[var_name]), 0)
    ELSE LET param_value == ModelEval(sol.model, param_var)
             value == rational_to_f64_enhanced(param_value[1], var_name)
         IN  IF param_value = None
             THEN Outcome(sol, Err(SolutionError("Failed to evaluate parameter " \o var_name, NoId)), 1)
             ELSE IF ~value.ok THEN Outcome(sol, value, 1)
             ELSE Outcome(
                 [sol EXCEPT !.parameter_vars = MapInsert(@, var_name, value.val)],
                 Ok(value.val), 1)

get_parameter(sol, var_name) ==
    IF var_name \in DOMAIN sol.parameter_vars
    THEN Ok(sol.parameter_vars[var_name])
    ELSE Err(SolutionError("Parameter not extracted: " \o var_name, NoId))

(* sqrt and atan2 are kept symbolic: the f64 is named by its arguments. *)
LineParameters(start_coords, end_coords) ==
    LET dx == RSub(end_coords[1], start_coords[1])
        dy == RSub(end_coords[2], start_coords[2])
    IN  [start |-> start_coords,
         end |-> end_coords,
         length |-> [sqrt |-> RAdd(RMul(dx, dx), RMul(dy, dy))],
         angle |-> [atan2 |-> <<dy, dx>>]]

extract_line_parameters(sol, line_id, start_coords, end_coords) ==
    IF line_id \in DOMAIN sol.line_params
    THEN Outcome(sol, Ok(sol.line_params[line_id]), 0)
    ELSE Outcome(
        [sol EXCEPT !.line_params =
            MapInsert(@, line_id, LineParameters(start_coords, end_coords))],
        Ok(LineParameters(start_coords, end_coords)), 0)

get_line_parameters(sol, line_id) ==
    IF line_id \in DOMAIN sol.line_params
    THEN Ok(sol.line_params[line_id])
    ELSE Err(SolutionError("Line {:?} parameters not extracted", line_id))

(* 2*pi*r and pi*r*r are kept symbolic in pi. *)
CircleParameters(center_coords, radius) ==
    [center |-> center_coords,
     radius |-> radius,
     circumference |-> [pi_times |-> RMul(Rat(2, 1), radius)],
     area |-> [pi_times |-> RMul(radius, radius)]]

extract_circle_parameters(sol, circle_id, center_coords, radius_var) ==
    IF circle_id \in DOMAIN sol.circle_params
    THEN Outcome(sol, Ok(sol.circle_params[circle_id]), 0)
    ELSE LET radius_value == ModelEval(sol.model, radius_var)
             radius == rational_to_f64_enhanced(radius_value[1], "radius")
         IN  IF radius_value = None
             THEN Outcome(sol,
                    Err(SolutionError("Failed to evaluate radius for circle {:?}", circle_id)), 1)
             ELSE IF ~radius.ok THEN Outcome(sol, radius, 1)
             ELSE Outcome(
                 [sol EXCEPT !.circle_params =
                     MapInsert(@, circle_id, CircleParameters(center_coords, radius.val))],
                 Ok(CircleParameters(center_coords, radius.val)), 1)

get_circle_parameters(sol, circle_id) ==
    IF circle_id \in DOMAIN sol.circle_params
    THEN Ok(sol.circle_params[circle_id])
    ELSE Err(SolutionError("Circle {:?} parameters not extracted", circle_id))

(***************************************************************************)
(* Sketch (src/src/sketch.rs).                                             *)
(***************************************************************************)
Returned(op, res) == [op |-> op, res |-> res]
NoSolution == <<>>

(* solve with Unknown reported as OverConstrained. *)
solve_UnknownAsUnsat(result) ==
    CASE result = "Sat" -> Ok("Sat")
      [] result = "Unsat" -> Err(OverConstrained)
      [] result = "Unknown" -> Err(OverConstrained)

(* solve with Unknown reported as UnderConstrained. *)
solve_UnknownAsUnderConstrained(result) ==
    CASE result = "Sat" -> Ok("Sat")
      [] result = "Unsat" -> Err(OverConstrained)
      [] result = "Unknown" -> Err([kind |-> "UnderConstrained", text |-> "", id |-> NoId])

(* Sketch::solve: the mapping of the solver's answer. *)
solve(result) ==
    CASE result = "Sat" -> Ok("Sat")
      [] result = "Unsat" -> Err(OverConstrained)
      [] result = "Unknown" -> Err(SolverError("Z3 solver returned unknown result"))

(* The loop without the early return: every constraint is applied and the *)
(* first error is reported at the end.                                    *)
RECURSIVE ApplyRemaining(_, _, _, _)
ApplyRemaining(i, asserted, done, first) ==
    IF i > Len(constraints)
    THEN [ok |-> first = NoErr, err |-> first, asserted |-> asserted, applied |-> done]
    ELSE LET r == Constraint_apply(constraints[i])
         IN  ApplyRemaining(i + 1, asserted \o r.asserted, Append(done, i),
                            IF first = NoErr /\ ~r.ok THEN r.err ELSE first)

ApplyConstraints_KeepGoing(i, asserted, done) ==
    ApplyRemaining(i, asserted, done, NoErr)

(* The loop with a later position of an unknown replacing an earlier one. *)
RECURSIVE ApplyConstraints_LastFixWins(_, _, _)
ApplyConstraints_LastFixWins(i, asserted, done) ==
    IF i > Len(constraints)
    THEN [ok |-> TRUE, err |-> NoErr, asserted |-> asserted, applied |-> done]
    ELSE LET r == Constraint_apply(constraints[i])
             fixed == {r.asserted[j].vars : j \in {k \in 1..Len(r.asserted) :
                                                     r.asserted[k].k = "eq_const"}}
             Stays(a) == ~(a.k = "eq_const" /\ a.vars \in fixed)
         IN  IF ~r.ok
             THEN [ok |-> FALSE, err |-> r.err, asserted |-> asserted,
                   applied |-> Append(done, i)]
             ELSE ApplyConstraints_LastFixWins(
                    i + 1, SelectSeq(asserted, Stays) \o r.asserted, Append(done, i))

(* The loop of solve_constraints from position i on: `asserted` is what the *)
(* constraints before i have asserted, `done` the positions whose apply ran. *)
RECURSIVE ApplyConstraints(_, _, _)
ApplyConstraints(i, asserted, done) ==
    IF i > Len(constraints)
    THEN [ok |-> TRUE, err |-> NoErr, asserted |-> asserted, applied |-> done]
    ELSE LET r == Constraint_apply(constraints[i])
         IN  IF ~r.ok
             THEN [ok |-> FALSE, err |-> r.err, asserted |-> asserted,
                   applied |-> Append(done, i)]
             ELSE ApplyConstraints(i + 1, asserted \o r.asserted, Append(done, i))

(* The unknowns of the entities of this sketch. *)
SketchUnknowns ==
    {points[i].x : i \in 1..Len(points)}
        \cup {points[i].y : i \in 1..Len(points)}
        \cup {circles[i].radius : i \in 1..Len(circles)}

(* The first loop of solve_and_extract: points i.. of the arena. *)
RECURSIVE ExtractPoints(_, _)
ExtractPoints(i, sol) ==
    IF i > Len(points) THEN Outcome(sol, Ok(<<>>), 0)
    ELSE LET r == extract_point_coordinates(sol, points[i].id, points[i].x, points[i].y)
         IN  IF ~r.res.ok THEN r ELSE ExtractPoints(i + 1, r.sol)

(* The second loop looking up the end point before the start point. *)
RECURSIVE ExtractLines_EndFirst(_, _)
ExtractLines_EndFirst(i, sol) ==
    IF i > Len(lines) THEN Outcome(sol, Ok(<<>>), 0)
    ELSE LET start_coords == get_point_coordinates(sol, lines[i].start)
             end_coords == get_point_coordinates(sol, lines[i].end)
             r == extract_line_parameters(sol, lines[i].id, start_coords.val, end_coords.val)
         IN  IF ~end_coords.ok THEN Outcome(sol, end_coords, 0)
             ELSE IF ~start_coords.ok THEN Outcome(sol, start_coords, 0)
             ELSE IF ~r.res.ok THEN r
             ELSE ExtractLines_EndFirst(i + 1, r.sol)

(* The second loop passing over a line whose endpoints were not extracted. *)
RECURSIVE ExtractLines_SkipMissing(_, _)
ExtractLines_SkipMissing(i, sol) ==
    IF i > Len(lines) THEN Outcome(sol, Ok(<<>>), 0)
    ELSE LET start_coords == get_point_coordinates(sol, lines[i].start)
             end_coords == get_point_coordinates(sol, lines[i].end)
             r == extract_line_parameters(sol, lines[i].id, start_coords.val, end_coords.val)
         IN  IF ~start_coords.ok \/ ~end_coords.ok
             THEN ExtractLines_SkipMissing(i + 1, sol)
             ELSE IF ~r.res.ok THEN r
             ELSE ExtractLines_SkipMissing(i + 1, r.sol)

(* The second loop of solve_and_extract: lines i.. of the arena. *)
RECURSIVE ExtractLines(_, _)
ExtractLines(i, sol) ==
    IF i > Len(lines) THEN Outcome(sol, Ok(<<>>), 0)
    ELSE LET start_coords == get_point_coordinates(sol, lines[i].start)
             end_coords == get_point_coordinates(sol, lines[i].end)
             r == extract_line_parameters(sol, lines[i].id, start_coords.val, end_coords.val)
         IN  IF ~start_coords.ok THEN Outcome(sol, start_coords, 0)
             ELSE IF ~end_coords.ok THEN Outcome(sol, end_coords, 0)
             ELSE IF ~r.res.ok THEN r
             ELSE ExtractLines(i + 1, r.sol)

(* solve_and_extract without the loop over the lines. *)
ExtractAll_PointsOnly(m) ==
    LET pts == ExtractPoints(1, Solution_new(m))
    IN  IF ~pts.res.ok THEN Err(pts.res.err) ELSE Ok(pts.sol)

(* solve_and_extract after a successful solve_constraints, on model m. *)
ExtractAll(m) ==
    LET pts == ExtractPoints(1, Solution_new(m))
        lns == ExtractLines(1, pts.sol)
    IN  IF ~pts.res.ok THEN Err(pts.res.err)
        ELSE IF ~lns.res.ok THEN Err(lns.res.err)
        ELSE Ok(lns.sol)

(***************************************************************************)
(* Inputs.                                                                 *)
(***************************************************************************)
Coords == 0..MaxCoord
Lengths == {Rat(n, 1) : n \in 1..MaxCoord}
Radii == 1..MaxCoord

FixedPosition(p, x, y) == [kind |-> "FixedPosition", point |-> p, x |-> x, y |-> y]
CoincidentPoints(p, q) == [kind |-> "CoincidentPoints", point1 |-> p, point2 |-> q]
LineLength(l, n) == [kind |-> "LineLength", line |-> l, length |-> n]
ParallelLines(l, k) == [kind |-> "ParallelLines", line1 |-> l, line2 |-> k]
PerpendicularLines(l, k) == [kind |-> "PerpendicularLines", line1 |-> l, line2 |-> k]
PointOnLine(l, p) == [kind |-> "PointOnLine", line |-> l, point |-> p]
CircleRadius(c, r) == [kind |-> "CircleRadius", circle |-> c, radius |-> r]

(* Every constraint over the identifier inputs: what apply is tried on. *)
CatalogInputs ==
    {FixedPosition(p, x, y) : p \in PointIdInputs, x \in Coords, y \in Coords}
    \cup {CoincidentPoints(p, q) : p \in PointIdInputs, q \in PointIdInputs}
    \cup {LineLength(l, n) : l \in LineIdInputs, n \in Lengths}
    \cup {ParallelLines(l, k) : l \in LineIdInputs, k \in LineIdInputs}
    \cup {PerpendicularLines(l, k) : l \in LineIdInputs, k \in LineIdInputs}
    \cup {PointOnLine(l, p) : l \in LineIdInputs, p \in PointIdInputs}
    \cup {CircleRadius(c, r) : c \in CircleIdInputs, r \in Radii}

(* What the callers of one sketch add to it: each kind with identifiers   *)
(* of the sketch, two conflicting positions, and unresolvable identifiers. *)
P0 == Index(0, 0)
P1 == Index(1, 0)
L0 == Index(0, 0)
C0 == Index(0, 0)

ConstraintInputs ==
    {FixedPosition(P0, 0, 0), FixedPosition(P0, 1, 1), FixedPosition(P1, 1, 0),
     FixedPosition(BadId, 0, 0),
     CoincidentPoints(P0, P1),
     LineLength(L0, One), LineLength(BadId, One),
     ParallelLines(L0, L0),
     PerpendicularLines(L0, L0),
     PointOnLine(L0, P1), PointOnLine(L0, BadId),
     CircleRadius(C0, 1)}

LineInputs == {<<P0, P1>>, <<P0, BadId>>}
CircleInputs == {P0}

(***************************************************************************)
(* Operations of the Sketch.                                               *)
(***************************************************************************)
(* Sketch::new: empty stores and a solver of its own, made from the       *)
(* context; solveLog is this sketch's share of the log.                   *)
Sketch_new ==
    [points |-> <<>>, lines |-> <<>>, circles |-> <<>>, constraints |-> <<>>,
     solver |-> <<>>, solveLog |-> <<>>]

(* One solver for every sketch of a context. *)
Sketch_solver_OfContext(own, inUse) == inUse

(* self.solver: the solver Sketch::new made for this sketch, not the one  *)
(* the sketch worked on before is using.                                  *)
Sketch_solver(own, inUse) == own

Init ==
    /\ points = <<>>
    /\ lines = <<>>
    /\ circles = <<>>
    /\ constraints = <<>>
    /\ solver = <<>>
    /\ ret = Returned("new", Ok(<<>>))
    /\ applied = <<>>
    /\ lastCheck = "none"
    /\ solveLog = <<>>
    /\ solution = NoSolution
    /\ evaluated = 0
    /\ peer = Sketch_new

add_point(name) ==
    /\ points' = Append(points, Point2D_new(ArenaNextIndex(points), name))
    /\ ret' = Returned("add_point", Ok(ArenaNextIndex(points)))
    /\ applied' = <<>>
    /\ lastCheck' = "none"
    /\ UNCHANGED <<peer, lines, circles, constraints, solver, solveLog, solution, evaluated>>

(* add_line refusing endpoints that do not resolve. *)
add_line_Validating(start, end, name) ==
    /\ IF get_point(start) = None \/ get_point(end) = None
       THEN /\ lines' = lines
            /\ ret' = Returned("add_line", Err(EntityError("Point {:?} not found", end)))
       ELSE /\ lines' = Append(lines, Line_new(ArenaNextIndex(lines), start, end, name))
            /\ ret' = Returned("add_line", Ok(ArenaNextIndex(lines)))
    /\ applied' = <<>>
    /\ lastCheck' = "none"
    /\ UNCHANGED <<peer, points, circles, constraints, solver, solveLog, solution, evaluated>>

add_line(start, end, name) ==
    /\ lines' = Append(lines, Line_new(ArenaNextIndex(lines), start, end, name))
    /\ ret' = Returned("add_line", Ok(ArenaNextIndex(lines)))
    /\ applied' = <<>>
    /\ lastCheck' = "none"
    /\ UNCHANGED <<peer, points, circles, constraints, solver, solveLog, solution, evaluated>>

add_circle(center, name) ==
    /\ circles' = Append(circles, Circle_new(ArenaNextIndex(circles), center, name))
    /\ ret' = Returned("add_circle", Ok(ArenaNextIndex(circles)))
    /\ applied' = <<>>
    /\ lastCheck' = "none"
    /\ UNCHANGED <<peer, points, lines, constraints, solver, solveLog, solution, evaluated>>

add_constraint(c) ==
    /\ constraints' = Append(constraints, c)
    /\ ret' = Returned("add_constraint", Ok(<<>>))
    /\ applied' = <<>>
    /\ lastCheck' = "none"
    /\ UNCHANGED <<peer, points, lines, circles, solver, solveLog, solution, evaluated>>

(* The caller sets the sketch aside and turns to the other sketch of the   *)
(* context; the operations above and below then act on that one.          *)
turn_to_peer ==
    /\ points' = peer.points
    /\ lines' = peer.lines
    /\ circles' = peer.circles
    /\ constraints' = peer.constraints
    /\ solver' = Sketch_solver(peer.solver, solver)
    /\ solveLog' = peer.solveLog
    /\ peer' = [points |-> points, lines |-> lines, circles |-> circles,
                constraints |-> constraints,
                solver |-> Sketch_solver(solver, peer.solver),
                solveLog |-> solveLog]
    /\ ret' = Returned("turn_to_peer", Ok(<<>>))
    /\ applied' = <<>>
    /\ lastCheck' = "none"
    /\ solution' = solution
    /\ evaluated' = evaluated

Sketch_solve ==
    /\ \E result \in CheckOutcomes(solver) :
        /\ lastCheck' = result
        /\ ret' = Returned("solve", solve(result))
    /\ applied' = <<>>
    /\ UNCHANGED <<peer, points, lines, circles, constraints, solver, solveLog, solution,
                   evaluated>>

(* solve_constraints discarding the assertions of a failed call. *)
solve_constraints_Rollback ==
    /\ LET run == ApplyConstraints(1, <<>>, <<>>)
       IN  /\ solver' = IF run.ok THEN solver \o run.asserted ELSE solver
           /\ applied' = run.applied
           /\ solveLog' = Append(solveLog, [n |-> Len(constraints), ok |-> run.ok])
           /\ IF ~run.ok
              THEN /\ lastCheck' = "none"
                   /\ ret' = Returned("solve_constraints", Err(run.err))
              ELSE \E result \in CheckOutcomes(solver \o run.asserted) :
                   /\ lastCheck' = result
                   /\ ret' = Returned("solve_constraints", solve(result))
    /\ UNCHANGED <<peer, points, lines, circles, constraints, solution, evaluated>>

(* solve_constraints withdrawing its equations when the solver finds them *)
(* unsatisfiable.                                                         *)
solve_constraints_PopOnUnsat ==
    /\ LET run == ApplyConstraints(1, <<>>, <<>>)
       IN  /\ applied' = run.applied
           /\ solveLog' = Append(solveLog, [n |-> Len(constraints), ok |-> run.ok])
           /\ IF ~run.ok
              THEN /\ lastCheck' = "none"
                   /\ solver' = solver \o run.asserted
                   /\ ret' = Returned("solve_constraints", Err(run.err))
              ELSE \E result \in CheckOutcomes(solver \o run.asserted) :
                   /\ lastCheck' = result
                   /\ solver' = IF result = "Unsat" THEN solver
                                ELSE solver \o run.asserted
                   /\ ret' = Returned("solve_constraints", solve(result))
    /\ UNCHANGED <<peer, points, lines, circles, constraints, solution, evaluated>>

(* solve_constraints applying only the constraints added since the last *)
(* call.                                                                 *)
solve_constraints_OnlyNew ==
    /\ LET from == IF solveLog = <<>> THEN 1 ELSE solveLog[Len(solveLog)].n + 1
           run == ApplyConstraints(from, <<>>, <<>>)
       IN  /\ solver' = solver \o run.asserted
           /\ applied' = run.applied
           /\ solveLog' = Append(solveLog, [n |-> Len(constraints), ok |-> run.ok])
           /\ IF ~run.ok
              THEN /\ lastCheck' = "none"
                   /\ ret' = Returned("solve_constraints", Err(run.err))
              ELSE \E result \in CheckOutcomes(solver \o run.asserted) :
                   /\ lastCheck' = result
                   /\ ret' = Returned("solve_constraints", solve(result))
    /\ UNCHANGED <<peer, points, lines, circles, constraints, solution, evaluated>>

(* solve_and_extract on a solver emptied before the constraints are applied. *)
solve_and_extract_Reset ==
    /\ LET run == ApplyConstraints(1, <<>>, <<>>)
           after == run.asserted
       IN  /\ solver' = after
           /\ applied' = run.applied
           /\ solveLog' = Append(solveLog, [n |-> Len(constraints), ok |-> run.ok])
           /\ IF ~run.ok
              THEN /\ lastCheck' = "none"
                   /\ ret' = Returned("solve_and_extract", Err(run.err))
              ELSE \E result \in CheckOutcomes(after) :
                   /\ lastCheck' = result
                   /\ IF ~solve(result).ok
                      THEN ret' = Returned("solve_and_extract", Err(solve(result).err))
                      ELSE \E m \in Models(after, UnknownsOf(after)) :
                           ret' = Returned("solve_and_extract",
                                           ExtractAll(Completed(m, SketchUnknowns)))
    /\ UNCHANGED <<peer, points, lines, circles, constraints, solution, evaluated>>

solve_constraints ==
    /\ LET run == ApplyConstraints(1, <<>>, <<>>)
       IN  /\ solver' = solver \o run.asserted
           /\ applied' = run.applied
           /\ solveLog' = Append(solveLog, [n |-> Len(constraints), ok |-> run.ok])
           /\ IF ~run.ok
              THEN /\ lastCheck' = "none"
                   /\ ret' = Returned("solve_constraints", Err(run.err))
              ELSE \E result \in CheckOutcomes(solver \o run.asserted) :
                   /\ lastCheck' = result
                   /\ ret' = Returned("solve_constraints", solve(result))
    /\ UNCHANGED <<peer, points, lines, circles, constraints, solution, evaluated>>

solve_and_extract ==
    /\ LET run == ApplyConstraints(1, <<>>, <<>>)
           after == solver \o run.asserted
       IN  /\ solver' = after
           /\ applied' = run.applied
           /\ solveLog' = Append(solveLog, [n |-> Len(constraints), ok |-> run.ok])
           /\ IF ~run.ok
              THEN /\ lastCheck' = "none"
                   /\ ret' = Returned("solve_and_extract", Err(run.err))
              ELSE \E result \in CheckOutcomes(after) :
                   /\ lastCheck' = result
                   /\ IF ~solve(result).ok
                      THEN ret' = Returned("solve_and_extract", Err(solve(result).err))
                      ELSE \E m \in Models(after, UnknownsOf(after)) :
                           ret' = Returned("solve_and_extract",
                                           ExtractAll(Completed(m, SketchUnknowns)))
    /\ UNCHANGED <<peer, points, lines, circles, constraints, solution, evaluated>>

(* Constraint::apply called on a constraint the sketch does not own, with *)
(* a solver of the caller's: the sketch is only read.                     *)
apply(c) ==
    /\ ret' = Returned("apply", [c |-> c, out |-> Constraint_apply(c)])
    /\ applied' = <<>>
    /\ lastCheck' = "none"
    /\ UNCHANGED <<peer, points, lines, circles, constraints, solver, solveLog, solution,
                   evaluated>>

(***************************************************************************)
(* Operations of a Solution the caller holds.                              *)
(***************************************************************************)
Called(op, key, args, r) ==
    /\ solution' = r.sol
    /\ evaluated' = r.evals
    /\ ret' = Returned(op, [key |-> key, args |-> args, out |-> r.res])
    /\ UNCHANGED <<peer, points, lines, circles, constraints, solver, applied, lastCheck,
                   solveLog>>

Solution_extract_point_coordinates(point_id, x_var, y_var) ==
    Called("extract_point_coordinates", point_id, <<x_var, y_var>>,
           extract_point_coordinates(solution, point_id, x_var, y_var))

Solution_extract_parameter(var_name, param_var) ==
    Called("extract_parameter", var_name, <<param_var>>,
           extract_parameter(solution, var_name, param_var))

Solution_extract_line_parameters(line_id, start_coords, end_coords) ==
    Called("extract_line_parameters", line_id, <<start_coords, end_coords>>,
           extract_line_parameters(solution, line_id, start_coords, end_coords))

Solution_extract_circle_parameters(circle_id, center_coords, radius_var) ==
    Called("extract_circle_parameters", circle_id, <<center_coords, radius_var>>,
           extract_circle_parameters(solution, circle_id, center_coords, radius_var))

Solution_get_point_coordinates(point_id) ==
    Called("get_point_coordinates", point_id, <<>>,
           Outcome(solution, get_point_coordinates(solution, point_id), 0))

Solution_get_parameter(var_name) ==
    Called("get_parameter", var_name, <<>>,
           Outcome(solution, get_parameter(solution, var_name), 0))

Solution_get_line_parameters(line_id) ==
    Called("get_line_parameters", line_id, <<>>,
           Outcome(solution, get_line_parameters(solution, line_id), 0))

Solution_get_circle_parameters(circle_id) ==
    Called("get_circle_parameters", circle_id, <<>>,
           Outcome(solution, get_circle_parameters(solution, circle_id), 0))

(***************************************************************************)
(* The sketch and its callers.                                             *)
(***************************************************************************)
Next ==
    \/ \E name \in NameOpts : Len(points) < MaxPoints /\ add_point(name)
    \/ \E l \in LineInputs : Len(lines) < MaxLines /\ add_line(l[1], l[2], None)
    \/ \E center \in CircleInputs : Len(circles) < MaxCircles /\ add_circle(center, None)
    \/ \E c \in ConstraintInputs : Len(constraints) < MaxConstraints /\ add_constraint(c)
    \/ Sketch_solve
    \/ Len(solveLog) < MaxSolves /\ solve_constraints
    \/ Len(solveLog) < MaxSolves /\ solve_and_extract

Spec == Init /\ [][Next]_vars

(***************************************************************************)
(* The constraint catalog on its own: any sketch of points, lines and      *)
(* circles, and apply tried on every constraint over the identifier        *)
(* inputs.                                                                 *)
(***************************************************************************)
NextApply ==
    \/ \E name \in NameOpts : Len(points) < MaxPoints /\ add_point(name)
    \/ \E start \in PointIdInputs, end \in PointIdInputs :
        Len(lines) < MaxApplyLines /\ add_line(start, end, None)
    \/ \E center \in CircleInputs : Len(circles) < MaxCircles /\ add_circle(center, None)
    \/ \E c \in CatalogInputs : apply(c)

SpecApply == Init /\ [][NextApply]_vars

(***************************************************************************)
(* The entity stores: more points and lines than the pipeline above, any   *)
(* endpoints, and solves in between.                                       *)
(***************************************************************************)
StorePointIds == {Index(i, 0) : i \in 0..(MaxStorePoints - 1)} \cup {BadId}
StoreConstraintInputs == {FixedPosition(P0, 1, 1), LineLength(L0, One)}

NextStore ==
    \/ \E name \in NameOpts : Len(points) < MaxStorePoints /\ add_point(name)
    \/ \E start \in StorePointIds, end \in StorePointIds :
        Len(lines) < MaxApplyLines /\ add_line(start, end, None)
    \/ \E c \in StoreConstraintInputs :
        Len(constraints) < MaxStoreConstraints /\ add_constraint(c)
    \/ Len(solveLog) < MaxSolves /\ solve_constraints
    \/ Len(solveLog) < MaxSolves /\ solve_and_extract

SpecStore == Init /\ [][NextStore]_vars

(***************************************************************************)
(* Points fixed at targets of whole meters, small and large, and solved.   *)
(***************************************************************************)
TargetCoords ==
    {-1, 0, 2, I32Max \div CoordScale, I32Max \div CoordScale + 1,
     I32Max \div CoordScale + 2}

NextFixed ==
    \/ \E name \in NameOpts : Len(points) < MaxPoints /\ add_point(name)
    \/ \E x \in TargetCoords, y \in TargetCoords :
        Len(constraints) < MaxConstraints /\ add_constraint(FixedPosition(P0, x, y))
    \/ Len(solveLog) < MaxSolves /\ solve_and_extract

SpecFixed == Init /\ [][NextFixed]_vars

(***************************************************************************)
(* A line between two points of different names, given a target length of *)
(* half a millimeter or of one meter, with or without its start fixed, and *)
(* solved.                                                                 *)
(***************************************************************************)
LengthTargets == {Rat(1, 2000), One}

LengthConstraintInputs ==
    {LineLength(L0, q) : q \in LengthTargets} \cup {FixedPosition(P0, 0, 0)}

NextLength ==
    \/ \E name \in NameOpts :
        /\ Len(points) < MaxPoints
        /\ \A i \in 1..Len(points) : points[i].name # name
        /\ add_point(name)
    \/ Len(lines) < MaxLines /\ add_line(P0, P1, None)
    \/ \E c \in LengthConstraintInputs :
        Len(constraints) < MaxConstraints /\ add_constraint(c)
    \/ Len(solveLog) < MaxSolves /\ solve_and_extract

SpecLength == Init /\ [][NextLength]_vars

(***************************************************************************)
(* A line made perpendicular to itself, its endpoints fixed at different   *)
(* positions, at the same position, or left free.                          *)
(***************************************************************************)
PerpConstraintInputs ==
    {PerpendicularLines(L0, L0),
     FixedPosition(P0, 0, 0), FixedPosition(P1, 1, 0), FixedPosition(P1, 0, 0)}

NextPerp ==
    \/ \E name \in NameOpts :
        /\ Len(points) < MaxPoints
        /\ \A i \in 1..Len(points) : points[i].name # name
        /\ add_point(name)
    \/ Len(lines) < MaxLines /\ add_line(P0, P1, None)
    \/ \E c \in PerpConstraintInputs :
        Len(constraints) < MaxPerpConstraints /\ add_constraint(c)
    \/ Len(solveLog) < MaxSolves /\ solve_and_extract

SpecPerp == Init /\ [][NextPerp]_vars

(***************************************************************************)
(* A third point placed on the line between two others; the points are     *)
(* named p1, p2, p3; the third is fixed beyond the end of the unit         *)
(* segment, or not at all.                                                 *)
(***************************************************************************)
P2 == Index(2, 0)

OnLineConstraintInputs ==
    {PointOnLine(L0, P2),
     FixedPosition(P0, 0, 0), FixedPosition(P1, 1, 0),
     FixedPosition(P2, 2, 0)}

NextOnLine ==
    \/ /\ Len(points) < MaxOnLinePoints
       /\ add_point(Some("p" \o ToString(Len(points) + 1)))
    \/ Len(lines) < MaxLines /\ add_line(P0, P1, None)
    \/ \E c \in OnLineConstraintInputs :
        Len(constraints) < MaxOnLineConstraints /\ add_constraint(c)
    \/ Len(solveLog) < MaxSolves /\ solve_and_extract

SpecOnLine == Init /\ [][NextOnLine]_vars

(***************************************************************************)
(* Two lines over four points named p1..p4, made parallel or perpendicular; *)
(* the first line is fixed horizontal, fixed to zero length, or left free,  *)
(* and the end of the second is fixed or left free.                         *)
(***************************************************************************)
P3 == Index(3, 0)
L1 == Index(1, 0)

TwoLineConstraintInputs ==
    {ParallelLines(L0, L1), PerpendicularLines(L0, L1),
     FixedPosition(P0, 0, 0), FixedPosition(P1, 1, 0), FixedPosition(P1, 0, 0),
     FixedPosition(P3, 1, 1)}

NextTwoLines ==
    \/ /\ Len(points) < MaxTwoLinePoints
       /\ add_point(Some("p" \o ToString(Len(points) + 1)))
    \/ /\ Len(lines) < MaxApplyLines
       /\ add_line(Index(2 * Len(lines), 0), Index(2 * Len(lines) + 1, 0), None)
    \/ \E c \in TwoLineConstraintInputs :
        Len(constraints) < MaxTwoLineConstraints /\ add_constraint(c)
    \/ Len(solveLog) < MaxTwoLineSolves /\ solve_and_extract

SpecTwoLines == Init /\ [][NextTwoLines]_vars

(***************************************************************************)
(* Two sketches on one context, worked on in turn: each gets a point, of   *)
(* the same display name or not, positions for it, and is solved.          *)
(***************************************************************************)
PairConstraintInputs == {FixedPosition(P0, 0, 0), FixedPosition(P0, 1, 1)}

NextPair ==
    \/ \E name \in NameOpts : Len(points) < MaxPairPoints /\ add_point(name)
    \/ \E c \in PairConstraintInputs :
        Len(constraints) < MaxConstraints /\ add_constraint(c)
    \/ Len(solveLog) < MaxPairSolves /\ solve_and_extract
    \/ turn_to_peer

SpecPair == Init /\ [][NextPair]_vars

(***************************************************************************)
(* The conversion of a numeral of the model on its own, on numerators and  *)
(* denominators around the thresholds of the precision warning, zero and   *)
(* negative ones, and on terms that are no rational.                       *)
(***************************************************************************)
Numerators ==
    {-WarnNumeratorAbove - 1, -3, 0, 1, 3,
     WarnNumeratorAbove, WarnNumeratorAbove + 1, 2 * WarnNumeratorAbove}
Denominators == {-2, -1, 0, 1, 3, WarnDenominatorBelow - 1, WarnDenominatorBelow}
ConversionInputs ==
    {<<n, d>> : n \in Numerators, d \in Denominators} \cup {NotRational, NotReal}
ConversionContexts == {"coordinate", "radius", "t_line_0_point_1"}

convert(value, context) ==
    /\ ret' = Returned("rational_to_f64_enhanced",
                       [value |-> value, context |-> context,
                        out |-> rational_to_f64_enhanced(value, context),
                        warned |-> IF value \in {NotRational, NotReal} \/ value[2] = 0
                                   THEN FALSE ELSE PrecisionWarning(value)])
    /\ UNCHANGED <<peer, points, lines, circles, constraints, solver, applied,
                   lastCheck, solveLog, solution, evaluated>>

NextConvert == \E value \in ConversionInputs, context \in ConversionContexts :
    convert(value, context)

SpecConvert == Init /\ [][NextConvert]_vars

(***************************************************************************)
(* A Solution on its own: built by Solution::new from any model of the     *)
(* numeral inputs, then queried in any order with any arguments.           *)
(***************************************************************************)
ModelUnknowns == {"u", "v"}
(* "w" is a term the model cannot evaluate. *)
VarInputs == ModelUnknowns \cup {"w"}
NumeralInputs == {<<0, 1>>, <<1, 2>>, <<1, 0>>, NotRational}
CoordInputs == {<<Zero, Zero>>, <<One, Zero>>}
ParameterNames == {"t_line_0_point_1"}

InitSolution ==
    /\ points = <<>>
    /\ lines = <<>>
    /\ circles = <<>>
    /\ constraints = <<>>
    /\ solver = <<>>
    /\ applied = <<>>
    /\ lastCheck = "none"
    /\ solveLog = <<>>
    /\ \E model \in [ModelUnknowns -> NumeralInputs] :
        solution = Solution_new(model)
    /\ ret = Returned("Solution::new", Ok(<<>>))
    /\ evaluated = 0
    /\ peer = Sketch_new

NextSolution ==
    \/ \E id \in {P0, P1}, x_var \in VarInputs, y_var \in VarInputs :
        Solution_extract_point_coordinates(id, x_var, y_var)
    \/ \E name \in ParameterNames, param_var \in VarInputs :
        Solution_extract_parameter(name, param_var)
    \/ \E start \in CoordInputs, end \in CoordInputs :
        Solution_extract_line_parameters(L0, start, end)
    \/ \E center \in CoordInputs, radius_var \in VarInputs :
        Solution_extract_circle_parameters(C0, center, radius_var)
    \/ \E id \in {P0, P1} : Solution_get_point_coordinates(id)
    \/ \E name \in ParameterNames : Solution_get_parameter(name)
    \/ Solution_get_line_parameters(L0)
    \/ Solution_get_circle_parameters(C0)

SpecSolution == InitSolution /\ [][NextSolution]_vars

(***************************************************************************)
(* Properties.                                                             *)
(***************************************************************************)
Min(S) == CHOOSE x \in S : \A y \in S : x <= y

(* The positions of the constraints that cannot resolve an identifier. *)
FailingPositions ==
    {i \in 1..Len(constraints) : ~Constraint_apply(constraints[i]).ok}

(* What the constraints at positions 1..n assert, in order. *)
RECURSIVE AssertedUpTo(_)
AssertedUpTo(n) ==
    IF n = 0 THEN <<>>
    ELSE AssertedUpTo(n - 1) \o Constraint_apply(constraints[n]).asserted

SolveOps == {"solve_constraints", "solve_and_extract"}

(* C1: solve_constraints applies the constraints in insertion order; the   *)
(* error of the first constraint that fails is what is returned, no later   *)
(* constraint is applied and the solver's check is not invoked.             *)
C1_FirstErrorAborts ==
    ret.op = "solve_constraints" =>
        IF FailingPositions = {}
        THEN /\ applied = [i \in 1..Len(constraints) |-> i]
             /\ lastCheck # "none"
        ELSE /\ applied = [i \in 1..Min(FailingPositions) |-> i]
             /\ ret.res = Err(Constraint_apply(constraints[Min(FailingPositions)]).err)
             /\ lastCheck = "none"

C1_Witness ==
    /\ ret.op = "solve_constraints"
    /\ Len(constraints) = 2
    /\ FailingPositions = {1}
    /\ applied = <<1>>
    /\ ~ret.res.ok

(* C2: solve returns Ok(Sat) exactly on Sat, OverConstrained exactly on    *)
(* Unsat and SolverError exactly on Unknown.                               *)
C2_TriStateMapping ==
    (ret.op \in {"solve", "solve_constraints"} /\ lastCheck # "none") =>
        /\ ret.res = Ok("Sat") <=> lastCheck = "Sat"
        /\ (~ret.res.ok /\ ret.res.err.kind = "OverConstrained") <=> lastCheck = "Unsat"
        /\ (~ret.res.ok /\ ret.res.err.kind = "SolverError") <=> lastCheck = "Unknown"

C2_Witness ==
    /\ ret.op = "solve_constraints"
    /\ lastCheck = "Unsat"
    /\ ret.res = Err(OverConstrained)

(* C3: when solve_constraints fails at a constraint that cannot resolve an *)
(* identifier, the solver holds what it held before the call followed by   *)
(* everything the constraints before the failing one asserted.             *)
C3_NoRollback ==
    [][(ret'.op = "solve_constraints" /\ Len(solveLog') = Len(solveLog) + 1
            /\ FailingPositions # {})
        => solver' = solver \o AssertedUpTo(Min(FailingPositions) - 1)]_vars

C3_Witness ==
    /\ ret.op = "solve_constraints"
    /\ ~ret.res.ok
    /\ ret.res.err.kind = "EntityError"
    /\ FailingPositions = {2}
    /\ Len(solveLog) = 2
    /\ Len(solver) > Len(AssertedUpTo(1))
    /\ AssertedUpTo(1) # <<>>

(* The first line, in arena order, one of whose endpoints has no point. *)
DanglingLines ==
    {i \in 1..Len(lines) :
        get_point(lines[i].start) = None \/ get_point(lines[i].end) = None}

FirstDanglingEndpoint ==
    LET l == lines[Min(DanglingLines)]
    IN  IF get_point(l.start) = None THEN l.start ELSE l.end

MissingPoint(id) == IF get_point(id) = None THEN {<<"Point", id>>} ELSE {}
MissingLine(id) ==
    IF get_line(id) = None THEN {<<"Line", id>>}
    ELSE MissingPoint(get_line(id)[1].start) \cup MissingPoint(get_line(id)[1].end)
MissingCircle(id) == IF get_circle(id) = None THEN {<<"Circle", id>>} ELSE {}

Unresolved(c) ==
    CASE c.kind = "FixedPosition" -> MissingPoint(c.point)
      [] c.kind = "CoincidentPoints" -> MissingPoint(c.point1) \cup MissingPoint(c.point2)
      [] c.kind = "LineLength" -> MissingLine(c.line)
      [] c.kind = "ParallelLines" -> MissingLine(c.line1) \cup MissingLine(c.line2)
      [] c.kind = "PerpendicularLines" -> MissingLine(c.line1) \cup MissingLine(c.line2)
      [] c.kind = "PointOnLine" -> MissingLine(c.line) \cup MissingPoint(c.point)
      [] c.kind = "CircleRadius" -> MissingCircle(c.circle)

(* The kind of entity a message speaks of. *)
NamedEntity(text) ==
    IF text = "Line {:?} not found" THEN "Line"
    ELSE IF text = "Circle {:?} not found" THEN "Circle"
    ELSE IF text \in {"Point {:?} not found",
                      "Start point {:?} not found", "End point {:?} not found",
                      "Start point {:?} of line1 not found",
                      "End point {:?} of line1 not found",
                      "Start point {:?} of line2 not found",
                      "End point {:?} of line2 not found",
                      "Line start point {:?} not found",
                      "Line end point {:?} not found"} THEN "Point"
    ELSE "none"

(* C5: for every constraint kind, if an identifier the constraint needs    *)
(* does not resolve, apply returns an EntityError whose message names an   *)
(* identifier that does not resolve.                                       *)
C5_EntityErrorNamesIdentifier ==
    ret.op = "apply" =>
        LET c == ret.res.c
            out == ret.res.out
        IN  IF Unresolved(c) = {} THEN out.ok
            ELSE /\ ~out.ok
                 /\ out.asserted = <<>>
                 /\ out.err.kind = "EntityError"
                 /\ <<NamedEntity(out.err.text), out.err.id>> \in Unresolved(c)

C5_Witness ==
    /\ ret.op = "apply"
    /\ ret.res.c.kind = "ParallelLines"
    /\ MissingLine(ret.res.c.line1) = {}
    /\ get_line(ret.res.c.line2) # None
    /\ ret.res.out.err.text = "End point {:?} of line2 not found"
    /\ ret.res.out.err.id = get_line(ret.res.c.line2)[1].end

(* C6: any two distinct points of a sketch have distinct unknowns, whatever *)
(* their display names are.                                                 *)
C6_DistinctUnknowns ==
    \A i, j \in 1..Len(points) :
        i # j => {points[i].x, points[i].y} \cap {points[j].x, points[j].y} = {}

(* Every entry of the cache `old` is in `new` with the same value. *)
Kept(old, new) == \A k \in DOMAIN old : k \in DOMAIN new /\ new[k] = old[k]

(* C7: under any sequence of extract and get calls, an entry of a cache of *)
(* the Solution never changes and is never removed.                        *)
C7_CacheWrittenOnce ==
    [][/\ Kept(solution.point_coords, solution'.point_coords)
       /\ Kept(solution.line_params, solution'.line_params)
       /\ Kept(solution.circle_params, solution'.circle_params)
       /\ Kept(solution.parameter_vars, solution'.parameter_vars)]_vars

(* An extract call that met a cached entry although its arguments give     *)
(* another value.                                                          *)
C7_Witness ==
    /\ ret.op = "extract_point_coordinates"
    /\ ret.res.key \in DOMAIN solution.point_coords
    /\ evaluated = 0
    /\ ret.res.args[1] \in DOMAIN solution.model
    /\ ret.res.args[2] \in DOMAIN solution.model
    /\ rational_to_f64(solution.model[ret.res.args[1]]).ok
    /\ rational_to_f64(solution.model[ret.res.args[2]]).ok
    /\ solution.point_coords[ret.res.key] #
         <<rational_to_f64(solution.model[ret.res.args[1]]).val,
           rational_to_f64(solution.model[ret.res.args[2]]).val>>

ExtractOps == {"extract_point_coordinates", "extract_parameter",
               "extract_line_parameters", "extract_circle_parameters"}

CacheOf(sol, op) ==
    CASE op = "extract_point_coordinates" -> sol.point_coords
      [] op = "extract_parameter" -> sol.parameter_vars
      [] op = "extract_line_parameters" -> sol.line_params
      [] op = "extract_circle_parameters" -> sol.circle_params

(* C8: an extract call for a key that already has a cache entry returns    *)
(* the cached value and does not evaluate the model, whatever it is passed. *)
C8_CachedValueReturned ==
    [][(ret'.op \in ExtractOps /\ ret'.res.key \in DOMAIN CacheOf(solution, ret'.op))
        => /\ ret'.res.out = Ok(CacheOf(solution, ret'.op)[ret'.res.key])
           /\ evaluated' = 0
           /\ solution' = solution]_vars

C8_Witness ==
    /\ ret.op = "extract_parameter"
    /\ ret.res.key \in DOMAIN solution.parameter_vars
    /\ evaluated = 0
    /\ ret.res.args[1] \in DOMAIN solution.model
    /\ rational_to_f64(solution.model[ret.res.args[1]]).ok
    /\ ret.res.out.val # rational_to_f64(solution.model[ret.res.args[1]]).val

(* C9: a Solution returned by solve_and_extract holds the coordinates of   *)
(* every point and the parameters of every line of the sketch, and no      *)
(* circle parameters.                                                      *)
C9_EagerPointsAndLines ==
    (ret.op = "solve_and_extract" /\ ret.res.ok) =>
        /\ \A i \in 1..Len(points) : get_point_coordinates(ret.res.val, points[i].id).ok
        /\ \A i \in 1..Len(lines) : get_line_parameters(ret.res.val, lines[i].id).ok
        /\ DOMAIN ret.res.val.circle_params = {}
        /\ \A i \in 1..Len(circles) : ~get_circle_parameters(ret.res.val, circles[i].id).ok

C9_Witness ==
    /\ ret.op = "solve_and_extract"
    /\ ret.res.ok
    /\ Len(points) = 2
    /\ Len(lines) = 1
    /\ Len(circles) = 1
    /\ Len(constraints) > 0

(* The number of equations each kind of constraint asserts. *)
EquationCount(kind) ==
    CASE kind = "FixedPosition" -> 2
      [] kind = "CoincidentPoints" -> 2
      [] kind = "LineLength" -> 1
      [] kind = "ParallelLines" -> 1
      [] kind = "PerpendicularLines" -> 1
      [] kind = "PointOnLine" -> 4
      [] kind = "CircleRadius" -> 1

RECURSIVE EquationTotal(_)
EquationTotal(n) ==
    IF n = 0 THEN 0 ELSE EquationTotal(n - 1) + EquationCount(constraints[n].kind)

RECURSIVE Copies(_, _)
Copies(seq, k) == IF k = 0 THEN <<>> ELSE Copies(seq, k - 1) \o seq

(* Every solve call so far applied all of the present constraints. *)
AllCallsAppliedAll ==
    /\ solveLog # <<>>
    /\ \A j \in 1..Len(solveLog) : solveLog[j] = [n |-> Len(constraints), ok |-> TRUE]

(* C10: after k solve calls on a sketch whose constraints all resolve, the *)
(* solver holds k copies of the equations of every constraint.             *)
C10_KCopiesOfEveryEquation ==
    AllCallsAppliedAll =>
        /\ solver = Copies(AssertedUpTo(Len(constraints)), Len(solveLog))
        /\ Len(solver) = Len(solveLog) * EquationTotal(Len(constraints))

C10_Witness ==
    /\ AllCallsAppliedAll
    /\ Len(solveLog) = 2
    /\ Len(constraints) = 2
    /\ constraints[1].kind = "PointOnLine"
    /\ constraints[2].kind = "FixedPosition"
    /\ Len(solver) = 12

(* What one call `op` on a sketch with the present entities and constraints *)
(* and a solver that holds nothing can return.                              *)
FreshResults(op) ==
    IF FailingPositions # {}
    THEN {Err(Constraint_apply(constraints[Min(FailingPositions)]).err)}
    ELSE LET fresh == AssertedUpTo(Len(constraints))
         IN  UNION {IF ~solve(r).ok THEN {Err(solve(r).err)}
                    ELSE IF op = "solve_constraints" THEN {solve(r)}
                    ELSE {ExtractAll(Completed(m, SketchUnknowns)) :
                            m \in Models(fresh, UnknownsOf(fresh))} :
                    r \in CheckOutcomes(fresh)}

(* C11: whatever solve calls came before, and whatever was added between   *)
(* them, solve_constraints and solve_and_extract return a result that one  *)
(* call on a fresh solver with the present constraints can return, and the *)
(* solver's verdict is one the fresh solver can give.                      *)
C11_ResolveIsIdempotent ==
    ret.op \in SolveOps =>
        /\ ret.res \in FreshResults(ret.op)
        /\ lastCheck # "none" =>
             lastCheck \in CheckOutcomes(AssertedUpTo(Len(constraints)))

C11_Witness ==
    /\ ret.op = "solve_and_extract"
    /\ ret.res.ok
    /\ Len(solveLog) = 2
    /\ solveLog[1] = [n |-> 1, ok |-> TRUE]
    /\ solveLog[2] = [n |-> 2, ok |-> TRUE]
    /\ Len(solver) > Len(AssertedUpTo(Len(constraints)))

(* C12: add_point, add_line and add_constraint succeed, store what they    *)
(* were given and leave the solver and everything else as it was, also     *)
(* when the identifiers they are given do not resolve.                     *)
C12_AddsAccumulateOnly ==
    [][/\ ret'.op \in {"add_point", "add_line", "add_constraint"} =>
            /\ ret'.res.ok
            /\ solver' = solver
            /\ solveLog' = solveLog
       /\ ret'.op = "add_point" =>
            /\ Len(points') = Len(points) + 1
            /\ \A i \in 1..Len(points) : points'[i] = points[i]
            /\ ret'.res.val = points'[Len(points')].id
            /\ lines' = lines /\ constraints' = constraints
       /\ ret'.op = "add_line" =>
            /\ Len(lines') = Len(lines) + 1
            /\ \A i \in 1..Len(lines) : lines'[i] = lines[i]
            /\ ret'.res.val = lines'[Len(lines')].id
            /\ points' = points /\ constraints' = constraints
       /\ ret'.op = "add_constraint" =>
            /\ Len(constraints') = Len(constraints) + 1
            /\ \A i \in 1..Len(constraints) : constraints'[i] = constraints[i]
            /\ points' = points /\ lines' = lines]_vars

(* A line with an endpoint that does not resolve was just added to a       *)
(* sketch that holds a constraint that does not resolve, after a solve.    *)
C12_Witness ==
    /\ ret.op = "add_line"
    /\ ret.res.ok
    /\ get_point(lines[Len(lines)].end) = None
    /\ FailingPositions # {}
    /\ solver # <<>>

(* C13: the identifier add_point (add_line) returns resolved to nothing    *)
(* before the call and differs from every identifier issued before; from   *)
(* the call on, under any adds and solves, get_point (get_line) on it      *)
(* yields the entity that call created.                                    *)
C13_IdentifiersStable ==
    [][/\ \A i \in 1..Len(points) : ArenaGet(points', points[i].id) = Some(points[i])
       /\ \A i \in 1..Len(lines) : ArenaGet(lines', lines[i].id) = Some(lines[i])
       /\ \A i, j \in 1..Len(points) : i # j => points[i].id # points[j].id
       /\ \A i, j \in 1..Len(lines) : i # j => lines[i].id # lines[j].id
       /\ ret'.op = "add_point" =>
            /\ \A i \in 1..Len(points) : points[i].id # ret'.res.val
            /\ ArenaGet(points, ret'.res.val) = None
            /\ ArenaGet(points', ret'.res.val) = Some(points'[Len(points')])
            /\ Len(points') = Len(points) + 1
       /\ ret'.op = "add_line" =>
            /\ \A i \in 1..Len(lines) : lines[i].id # ret'.res.val
            /\ ArenaGet(lines, ret'.res.val) = None
            /\ ArenaGet(lines', ret'.res.val) = Some(lines'[Len(lines')])
            /\ Len(lines') = Len(lines) + 1]_vars

C13_Witness ==
    /\ ret.op = "add_point"
    /\ Len(points) = 3
    /\ Len(lines) = 2
    /\ solveLog # <<>>
    /\ get_point(ret.res.val) = Some(points[3])
    /\ get_point(P0) = Some(points[1])
    /\ get_line(L0) = Some(lines[1])

(* C14: get_point and get_line yield nothing for an identifier that        *)
(* another sketch's add_point or add_line returned.                        *)
C14_ForeignIdentifiersResolveToNothing ==
    /\ \A id \in IssuedByAnotherArena(MaxStorePoints) : get_point(id) = None
    /\ \A id \in IssuedByAnotherArena(MaxApplyLines) : get_line(id) = None

(* |q - metres| <= 1/ToleranceScale for an extracted value q = <<n, d>>,   *)
(* d > 0, and a whole number of meters.                                    *)
WithinTolerance(q, metres) ==
    LET whole == q[1] \div q[2]
        rest == q[1] % q[2]
    IN  \/ whole = metres /\ rest <= q[2] \div ToleranceScale
        \/ whole = metres - 1 /\ q[2] - rest <= q[2] \div ToleranceScale

(* C15: a sketch whose only constraint fixes its first point at (x, y)     *)
(* solves, unless the solver gives up, and the extracted coordinates of    *)
(* the point are within 1e-6 of (x, y).                                    *)
C15_FixedPointWithinTolerance ==
    (/\ ret.op = "solve_and_extract"
     /\ Len(constraints) = 1
     /\ constraints[1].kind = "FixedPosition"
     /\ get_point(constraints[1].point) # None
     /\ lastCheck # "Unknown") =>
        /\ ret.res.ok
        /\ WithinTolerance(ret.res.val.point_coords[constraints[1].point][1],
                           constraints[1].x)
        /\ WithinTolerance(ret.res.val.point_coords[constraints[1].point][2],
                           constraints[1].y)

(* |sqrt(dsq) - L| <= 1/ToleranceScale, decided on the squares. *)
DistanceWithinTolerance(dsq, L) ==
    LET eps == Rat(1, ToleranceScale)
    IN  IF dsq = RMul(L, L) THEN TRUE
        ELSE IF dsq = Zero THEN RLe(L, eps)
        ELSE /\ RLe(dsq, RMul(RAdd(L, eps), RAdd(L, eps)))
             /\ RLe(L, eps) \/ RLe(RMul(RSub(L, eps), RSub(L, eps)), dsq)

(* C16: in every solution of a sketch with a length constraint of target L *)
(* on a line, the distance between the line's solved endpoints is within   *)
(* 1e-6 of L.                                                              *)
C16_LengthWithinTolerance ==
    (ret.op = "solve_and_extract" /\ ret.res.ok) =>
        \A i \in 1..Len(constraints) :
            constraints[i].kind = "LineLength" =>
                DistanceWithinTolerance(
                    ret.res.val.line_params[constraints[i].line].length.sqrt,
                    constraints[i].length)

(* The positions the fixed-position constraints of the sketch give point p. *)
FixedAt(p) ==
    {<<constraints[i].x, constraints[i].y>> :
        i \in {j \in 1..Len(constraints) :
                 constraints[j].kind = "FixedPosition" /\ constraints[j].point = p}}

(* The lines the sketch constrains to be perpendicular to themselves. *)
SelfPerpendicular ==
    {constraints[i].line1 :
        i \in {j \in 1..Len(constraints) :
                 /\ constraints[j].kind = "PerpendicularLines"
                 /\ constraints[j].line1 = constraints[j].line2}}

C18_ConflictingFixesOverConstrained ==
    (/\ ret.op = "solve_and_extract"
     /\ FailingPositions = {}
     /\ lastCheck # "Unknown"
     /\ \E i \in 1..Len(constraints) : Cardinality(FixedAt(constraints[i].point)) > 1)
        => ret.res = Err(OverConstrained)

(* The point-on-line constraints over the identifier inputs that apply on *)
(* the present sketch, and the unknown t each of them introduces.          *)
PointOnLineInputs == {PointOnLine(l, p) : l \in LineIdInputs, p \in PointIdInputs}
Applicable == {c \in PointOnLineInputs : Constraint_apply(c).ok}
InternalUnknown(c) == Constraint_apply(c).asserted[3].vars[1]

(* C19: the unknown t that a point-on-line constraint introduces is the    *)
(* unknown of all four of its equations, is no unknown of a point, and     *)
(* differs in name from the t of every constraint with another (line,      *)
(* point) pair that applies on the sketch; the name for a pair stays the   *)
(* same when the sketch grows.                                             *)
C19_InternalUnknownNames ==
    [][/\ (ret'.op = "apply" /\ ret'.res.c.kind = "PointOnLine" /\ ret'.res.out.ok) =>
            LET t == ret'.res.out.asserted[3].vars[1]
            IN  /\ ret'.res.out.asserted[4].vars[1] = t
                /\ ret'.res.out.asserted[1].vars[4] = t
                /\ ret'.res.out.asserted[2].vars[4] = t
                /\ t \notin SketchUnknowns
                /\ \A c \in Applicable :
                     IF <<c.line, c.point>> = <<ret'.res.c.line, ret'.res.c.point>>
                     THEN InternalUnknown(c) = t
                     ELSE InternalUnknown(c) # t
       /\ ret'.op # "apply" =>
            \A c \in Applicable :
                Constraint_apply(c)'.ok /\ InternalUnknown(c)' = InternalUnknown(c)]_vars

C19_Witness ==
    /\ ret.op = "apply"
    /\ ret.res.c = PointOnLine(L0, P1)
    /\ ret.res.out.ok
    /\ PointOnLine(L0, P0) \in Applicable
    /\ PointOnLine(Index(1, 0), P1) \in Applicable
    /\ ret.res.out.asserted[3].vars[1] # InternalUnknown(PointOnLine(L0, P0))

(* P = S + t*(E - S) for some t with 0 <= t <= 1: P is on the line through *)
(* S and E and its projection falls between them.                          *)
OnSegment(P, S, E) ==
    LET dx == RSub(E[1], S[1])
        dy == RSub(E[2], S[2])
        px == RSub(P[1], S[1])
        py == RSub(P[2], S[2])
        along == RAdd(RMul(px, dx), RMul(py, dy))
    IN  IF S = E THEN P = S
        ELSE /\ RSub(RMul(px, dy), RMul(py, dx)) = Zero
             /\ RLe(Zero, along)
             /\ RLe(along, RAdd(RMul(dx, dx), RMul(dy, dy)))

(* C20: in every solution solve_and_extract returns for a sketch with a    *)
(* point-on-line constraint, the solved point lies on the closed segment   *)
(* between the solved endpoints of the line.                               *)
C20_PointOnClosedSegment ==
    (ret.op = "solve_and_extract" /\ ret.res.ok) =>
        \A i \in 1..Len(constraints) :
            constraints[i].kind = "PointOnLine" =>
                OnSegment(ret.res.val.point_coords[constraints[i].point],
                          ret.res.val.line_params[constraints[i].line].start,
                          ret.res.val.line_params[constraints[i].line].end)

C20_Witness ==
    /\ ret.op = "solve_and_extract"
    /\ ret.res.ok
    /\ \E i \in 1..Len(constraints) : constraints[i] = PointOnLine(L0, P2)
    /\ \E i \in 1..Len(constraints) : constraints[i] = FixedPosition(P2, 2, 0)
    /\ ret.res.val.line_params[L0].start # ret.res.val.line_params[L0].end
    /\ ret.res.val.point_coords[P2] # ret.res.val.point_coords[P0]

(* The direction vector of a solved line. *)
Direction(lp) == <<RSub(lp.end[1], lp.start[1]), RSub(lp.end[2], lp.start[2])>>
Cross(v, w) == RSub(RMul(v[1], w[2]), RMul(v[2], w[1]))
Dot(v, w) == RAdd(RMul(v[1], w[1]), RMul(v[2], w[2]))

(* C21: in every solution solve_and_extract returns, the direction vectors *)
(* of two lines under a parallel constraint have cross product zero, and   *)
(* those of two lines under a perpendicular constraint dot product zero.   *)
C21_ParallelAndPerpendicularHold ==
    (ret.op = "solve_and_extract" /\ ret.res.ok) =>
        \A i \in 1..Len(constraints) :
            LET c == constraints[i]
                lp == ret.res.val.line_params
            IN  /\ c.kind = "ParallelLines" =>
                    Cross(Direction(lp[c.line1]), Direction(lp[c.line2])) = Zero
                /\ c.kind = "PerpendicularLines" =>
                    Dot(Direction(lp[c.line1]), Direction(lp[c.line2])) = Zero

(* Two lines of length one solved parallel, and two solved perpendicular.  *)
C21_Witness ==
    /\ ret.op = "solve_and_extract"
    /\ ret.res.ok
    /\ constraints = <<FixedPosition(P0, 0, 0), FixedPosition(P1, 1, 0),
                       ParallelLines(L0, L1)>>
    /\ Direction(ret.res.val.line_params[L1]) = <<Rat(-1, 1), Zero>>

C21_WitnessPerpendicular ==
    /\ ret.op = "solve_and_extract"
    /\ ret.res.ok
    /\ constraints = <<FixedPosition(P0, 0, 0), FixedPosition(P1, 1, 0),
                       PerpendicularLines(L0, L1)>>
    /\ Direction(ret.res.val.line_params[L1]) = <<Zero, One>>

(* The lines both of whose endpoints the sketch fixes at one position. *)
ZeroLength(l) ==
    /\ get_line(l) # None
    /\ FixedAt(get_line(l)[1].start) \cap FixedAt(get_line(l)[1].end) # {}

(* The equations of the parallel constraints that involve such a line. *)
ParallelToZeroLength ==
    UNION {Range(Constraint_apply(constraints[i]).asserted) :
        i \in {j \in 1..Len(constraints) :
                 /\ constraints[j].kind = "ParallelLines"
                 /\ ZeroLength(constraints[j].line1) \/ ZeroLength(constraints[j].line2)}}

(* C22: a parallel constraint between a line whose endpoints are fixed at  *)
(* one position and any other line excludes nothing: every placement of    *)
(* the other line that the remaining equations allow is still allowed, and *)
(* solve_and_extract succeeds exactly when the remaining equations are     *)
(* satisfiable.                                                            *)
C22_ZeroLengthLineParallelToAny ==
    (/\ ret.op = "solve_and_extract"
     /\ FailingPositions = {}
     /\ DanglingLines = {}
     /\ lastCheck # "Unknown"
     /\ ParallelToZeroLength # {}) =>
        LET Other(a) == a \notin ParallelToZeroLength
            rest == SelectSeq(solver, Other)
        IN  /\ Models(solver, UnknownsOf(solver)) = Models(rest, UnknownsOf(solver))
            /\ ret.res.ok <=> Satisfiable(rest)

(* The first line has zero length at the origin and the second was solved  *)
(* along the diagonal.                                                     *)
C22_Witness ==
    /\ ret.op = "solve_and_extract"
    /\ ret.res.ok
    /\ constraints = <<FixedPosition(P0, 0, 0), FixedPosition(P1, 0, 0),
                       ParallelLines(L0, L1)>>
    /\ Direction(ret.res.val.line_params[L1]) = <<One, One>>

(* The constraints of the sketch in the order pi, and what they assert.    *)
Reordered(pi) == [i \in 1..Len(constraints) |-> constraints[pi[i]]]

RECURSIVE AssertedInOrder(_, _)
AssertedInOrder(cs, n) ==
    IF n = 0 THEN <<>>
    ELSE AssertedInOrder(cs, n - 1) \o Constraint_apply(cs[n]).asserted

(* `res` is something solve_and_extract can return on a sketch with the    *)
(* present entities whose constraints were added in the order pi, the      *)
(* solver not giving up: OverConstrained when the equations have no model, *)
(* and what is extracted from one of their models otherwise.               *)
ReturnedInOrder(res, pi) ==
    LET eqs == AssertedInOrder(Reordered(pi), Len(constraints))
    IN  IF ~Satisfiable(eqs) THEN res = Err(OverConstrained)
        ELSE \E m \in Models(eqs, UnknownsOf(eqs)) :
                /\ res.ok => res.val.model = Completed(m, SketchUnknowns)
                /\ res = ExtractAll(Completed(m, SketchUnknowns))

(* C23: when every constraint resolves and the solver does not give up,    *)
(* what solve_and_extract returns is what it can return for every other    *)
(* order of the same constraints; when only one result is possible in an   *)
(* order, it is the result in every order.                                 *)
C23_OrderIndependent ==
    (/\ ret.op = "solve_and_extract"
     /\ FailingPositions = {}
     /\ lastCheck # "Unknown"
     /\ Len(solveLog) = 1) =>
        \A pi \in Permutations(1..Len(constraints)) : ReturnedInOrder(ret.res, pi)

(* Three constraints that determine the first line, solved. *)
C23_Witness ==
    /\ ret.op = "solve_and_extract"
    /\ ret.res.ok
    /\ constraints = <<ParallelLines(L0, L1), FixedPosition(P1, 1, 0),
                       FixedPosition(P0, 0, 0)>>
    /\ Cardinality(Permutations(1..Len(constraints))) = 6
    /\ ret.res.val.point_coords[P1] = <<One, Zero>>

GetOps == {"get_point_coordinates", "get_parameter",
           "get_line_parameters", "get_circle_parameters"}

CacheRead(sol, op) ==
    CASE op = "get_point_coordinates" -> sol.point_coords
      [] op = "get_parameter" -> sol.parameter_vars
      [] op = "get_line_parameters" -> sol.line_params
      [] op = "get_circle_parameters" -> sol.circle_params

(* C24: a get call leaves the Solution as it was and evaluates nothing;    *)
(* it returns the cached value of a key that was extracted and a           *)
(* SolutionError for a key that was not.                                   *)
C24_GettersOnlyReadTheCache ==
    [][ret'.op \in GetOps =>
        /\ solution' = solution
        /\ evaluated' = 0
        /\ IF ret'.res.key \in DOMAIN CacheRead(solution, ret'.op)
           THEN ret'.res.out = Ok(CacheRead(solution, ret'.op)[ret'.res.key])
           ELSE /\ ~ret'.res.out.ok
                /\ ret'.res.out.err.kind = "SolutionError"]_vars

(* A miss for one point while the other is in the cache. *)
C24_Witness ==
    /\ ret.op = "get_point_coordinates"
    /\ ret.res.key = P0
    /\ ~ret.res.out.ok
    /\ DOMAIN solution.point_coords = {P1}
    /\ DOMAIN solution.parameter_vars # {}

(* The error the last operation returned; NoErr when it returned none. *)
ReturnedError ==
    IF ret.op = "apply" \/ ret.op \in ExtractOps \/ ret.op \in GetOps
    THEN ret.res.out.err
    ELSE ret.res.err

ReservedErrors == {"UnderConstrained", "InvalidConstraint", "ExportError",
                   "InvalidParameter"}
CoreErrors == {"EntityError", "OverConstrained", "SolverError", "SolutionError"}

(* C25: no operation returns UnderConstrained, InvalidConstraint,          *)
(* ExportError or InvalidParameter, and an error of solve_and_extract is   *)
(* an EntityError, OverConstrained, a SolverError or a SolutionError.      *)
C25_OnlyCoreErrors ==
    /\ ReturnedError.kind \notin ReservedErrors
    /\ ReturnedError.kind \in CoreErrors \cup {"none"}
    /\ (ret.op = "solve_and_extract" /\ ~ret.res.ok) => ReturnedError.kind \in CoreErrors

(* The second solve_and_extract of a sketch failing in the extraction;    *)
(* the three witnesses after it are the other ways it fails.               *)
C25_Witness ==
    /\ ret.op = "solve_and_extract"
    /\ ~ret.res.ok
    /\ ReturnedError.kind = "SolutionError"
    /\ Len(solveLog) = 2
    /\ Len(constraints) > 0

C25_WitnessSolverError ==
    /\ ret.op = "solve_and_extract"
    /\ ReturnedError.kind = "SolverError"

C25_WitnessEntityError ==
    /\ ret.op = "solve_and_extract"
    /\ ReturnedError.kind = "EntityError"

C25_WitnessOverConstrained ==
    /\ ret.op = "solve_and_extract"
    /\ ReturnedError.kind = "OverConstrained"

AllSolveOps == {"solve", "solve_constraints", "solve_and_extract"}

(* C26: an operation of the sketch leaves what the solver holds in place   *)
(* and adds to its end, so equations without a model stay without one; a   *)
(* solve, solve_constraints or solve_and_extract that returns              *)
(* OverConstrained leaves the solver with such equations, and on such      *)
(* equations each of the three fails.  Hence no solve succeeds after an    *)
(* OverConstrained, whatever is added in between.                          *)
C26_OverConstrainedIsFinal ==
    [][/\ Len(solver') >= Len(solver)
       /\ SubSeq(solver', 1, Len(solver)) = solver
       /\ Satisfiable(solver') => Satisfiable(solver)
       /\ (ret'.op \in AllSolveOps /\ ~ret'.res.ok
             /\ ret'.res.err.kind = "OverConstrained") => ~Satisfiable(solver')
       /\ (ret'.op \in AllSolveOps /\ ~Satisfiable(solver)) => ~ret'.res.ok]_vars

(* Equations that have no model, a constraint added after the solver said  *)
(* so, and the next solve failing for that reason.                         *)
C26_Witness ==
    /\ ret.op = "solve_and_extract"
    /\ ret.res = Err(OverConstrained)
    /\ Len(solveLog) = 2
    /\ solveLog[1].ok
    /\ solveLog[1].n < solveLog[2].n
    /\ ~Satisfiable(SubSeq(solver, 1, Len(AssertedUpTo(solveLog[1].n))))

(* C27: an apply call that returns an error has asserted nothing, and one  *)
(* that returns Ok has asserted every equation of its constraint; it       *)
(* returns Ok exactly when every identifier it looks up resolves.          *)
C27_ApplyIsAllOrNothing ==
    ret.op = "apply" =>
        LET c == ret.res.c
            out == ret.res.out
        IN  /\ out.ok <=> Unresolved(c) = {}
            /\ out.ok => Len(out.asserted) = EquationCount(c.kind)
            /\ ~out.ok => out.asserted = <<>>

(* The last of the four lookups of a point-on-line constraint failing. *)
C27_Witness ==
    /\ ret.op = "apply"
    /\ ret.res.c.kind = "PointOnLine"
    /\ get_point(ret.res.c.point) # None
    /\ ~ret.res.out.ok
    /\ ret.res.out.err.text = "Line end point {:?} not found"
    /\ ret.res.out.asserted = <<>>

InHand ==
    [points |-> points, lines |-> lines, circles |-> circles,
     constraints |-> constraints, solver |-> solver, solveLog |-> solveLog]

(* C29: an operation on one sketch leaves the other sketch of the context  *)
(* as it was, turning to the other sketch finds it as it was left, and     *)
(* solve_and_extract returns what it can return on a sketch that is alone  *)
(* on its context, whatever the other sketch has asserted.                 *)
C29_SketchesDoNotInterfere ==
    [][/\ ret'.op # "turn_to_peer" => peer' = peer
       /\ ret'.op = "turn_to_peer" => (InHand' = peer /\ peer' = InHand)
       /\ ret'.op = "solve_and_extract" =>
            /\ solver' = solver \o AssertedUpTo(IF lastCheck' = "none"
                                                 THEN Len(applied') - 1
                                                 ELSE Len(applied'))
            /\ ret'.res \in FreshResults("solve_and_extract")]_vars

(* Both sketches name their point "a"; the other one has its point fixed   *)
(* at the origin and solved, this one at (1, 1) and solved.                *)
C29_Witness ==
    /\ ret.op = "solve_and_extract"
    /\ ret.res.ok
    /\ constraints = <<FixedPosition(P0, 1, 1)>>
    /\ ret.res.val.point_coords[P0] = <<One, One>>
    /\ peer.constraints = <<FixedPosition(P0, 0, 0)>>
    /\ peer.solver = AssertedUpTo(0) \o FixedPositionConstraint_apply(peer.constraints[1]).asserted
    /\ peer.points = points
    /\ points[1].name = Some("a")

(* q is the quotient n/d written in lowest terms with a positive           *)
(* denominator.                                                            *)
IsQuotient(q, n, d) ==
    /\ q[2] > 0
    /\ Abs(d) % q[2] = 0
    /\ q[1] * (Abs(d) \div q[2]) = (IF d < 0 THEN -n ELSE n)
    /\ \A k \in 2..q[2] : ~(q[1] % k = 0 /\ q[2] % k = 0)

(* C30: the conversion returns a SolutionError exactly when the value is   *)
(* no rational or its denominator is zero (a quotient of two i64 with a    *)
(* nonzero denominator is finite); otherwise it returns the quotient, and  *)
(* does so whether or not it warns of precision loss.                      *)
C30_ConversionFailsOnlyWithoutQuotient ==
    ret.op = "rational_to_f64_enhanced" =>
        LET value == ret.res.value
            out == ret.res.out
        IN  IF value \in {NotRational, NotReal} \/ value[2] = 0
            THEN ~out.ok /\ out.err.kind = "SolutionError"
            ELSE out.ok /\ IsQuotient(out.val, value[1], value[2])

(* A conversion that warned and returned the quotient. *)
C30_Witness ==
    /\ ret.op = "rational_to_f64_enhanced"
    /\ ret.res.warned
    /\ ret.res.value = <<-WarnNumeratorAbove - 1, -2>>
    /\ ret.res.out = Ok(<<WarnNumeratorAbove + 1, 2>>)

=============================================================================
